---- MODULE Spec2Model ----
(***************************************************************************)
(* Model of the image-scaler repository: the scale-and-crop transform and  *)
(* the per-size archive step of image_scaler.py, the scaler's main loop,   *)
(* and the publisher (image_publisher.py) that uploads and then empties    *)
(* the output subfolder "scaled".                                          *)
(***************************************************************************)
EXTENDS Integers, Sequences, FiniteSets, TLC

(* ------------------------------ bounds -------------------------------- *)
\* source images of the transform have width and height in 1..MaxDim
MaxDim == 14
\* a folder holds 0..MaxImages source images
MaxImages == 2
\* the archive step is run on 0..MaxEntries variant files
MaxEntries == 3
\* failures of the environment in one behaviour: a kill of the scaler, a Drive
\* call that raises, an unlink that fails, a PDF that cannot be made
MaxFaults == 1

(* --------------------------- configuration ---------------------------- *)
\* SCALES, in the dictionary's insertion order (the order of .items())
ScaleNames == <<"16x20", "11x14", "18x24", "24x36", "50x70">>

SCALES ==
    [n \in {ScaleNames[i] : i \in DOMAIN ScaleNames} |->
        CASE n = "16x20" -> <<1600, 2000>>
          [] n = "11x14" -> <<1571, 2000>>
          [] n = "18x24" -> <<1728, 2304>>
          [] n = "24x36" -> <<1728, 2592>>
          [] n = "50x70" -> <<1890, 2646>>]

ScaleSet == DOMAIN SCALES

VARIABLES
    crop,        \* one call of scale_and_crop: its input, position and locals
    pack,        \* one run of the archive step on a list of variant files
    images,      \* folder -> readable flags of its source images, in listing order
    scaledDir,   \* folder -> the output subfolder "scaled" exists
    pngs,        \* folder -> variant files <<idx, scale>> present in "scaled"
    zips,        \* folder -> archives present in "scaled": <<scale, entries>>
    pdf,         \* folder -> the instruction PDF exists in the folder
    drive,       \* folder -> archives (by scale) uploaded to Drive
    pc,          \* position of the running program, or how the last run ended
    todo,        \* folders the scaler's main loop has not visited yet
    cur,         \* the folder process_folder is working on
    si,          \* index in ScaleNames of the size being produced
    scaled_images, \* process_folder's list of this size's variant files
    cands,       \* the publisher's remaining candidate folders
    faults,      \* failures of the environment so far
    hist         \* history of the run, read by the properties only

cropVars == <<crop>>
packVars == <<pack>>
pipeVars == <<images, scaledDir, pngs, zips, pdf, drive, pc, todo, cur, si,
              scaled_images, cands, faults, hist>>
vars == <<crop, pack, images, scaledDir, pngs, zips, pdf, drive, pc, todo, cur, si,
          scaled_images, cands, faults, hist>>

(* ===================== scale_and_crop (image_scaler.py) ================ *)

\* ceil(a / b) for a >= 0, b > 0
CeilDiv(a, b) == (a + b - 1) \div b

\* img.rotate(90, expand=True) of a landscape image swaps width and height
Rotate(w, h) == IF w > h THEN <<h, w>> ELSE <<w, h>>

\* aspect_ratio > target_aspect_ratio, i.e. w/h > tw/th
IsWiderMut(w, h, tw, th) == w * th < tw * h
IsWider(w, h, tw, th) == w * th > tw * h

\* ceil of the float product or quotient whose exact value is num/den.  When
\* num/den is not an integer it is at least 1/den away from one, far more than
\* the rounding error of two float operations, and the ceiling is exact.  When
\* it is an integer n the float result can land just above n, giving n + 1.
FloatCeil(num, den) ==
    IF num % den = 0 THEN {num \div den, num \div den + 1} ELSE {CeilDiv(num, den)}

\* (new_width, new_height) of the cover-fit resize, lines 31-36
NewSizes(w, h, tw, th) ==
    IF IsWider(w, h, tw, th)
    THEN {<<nw, th>> : nw \in FloatCeil(th * w, h)}
    ELSE {<<tw, nh>> : nh \in FloatCeil(tw * h, w)}

\* Python's round() of the value twice/2: halves go to the even neighbour
RoundHalfEven(twice) ==
    IF twice % 2 = 0 THEN twice \div 2
    ELSE LET q == (twice - 1) \div 2 IN IF q % 2 = 0 THEN q ELSE q + 1

\* The crop box of lines 39-42, with coordinates in half pixels
CropBox(nw, nh, tw, th) ==
    <<nw - tw, nh - th, (nw - tw) + 2 * tw, (nh - th) + 2 * th>>

\* img.crop(box): Pillow rounds each coordinate with round() and returns an
\* image of size (x1 - x0, y1 - y0)
CropSize(box) ==
    <<RoundHalfEven(box[3]) - RoundHalfEven(box[1]),
      RoundHalfEven(box[4]) - RoundHalfEven(box[2])>>

CropIdle == [pc |-> "idle", w |-> 0, h |-> 0, scale |-> "16x20",
             new |-> <<0, 0>>, box |-> <<0, 0, 0, 0>>, out |-> <<0, 0>>]

InitCropInput ==
    crop \in {[CropIdle EXCEPT !.pc = "open", !.w = w, !.h = h, !.scale = s] :
                 w \in 1..MaxDim, h \in 1..MaxDim, s \in ScaleSet}

\* lines 17-25: open, convert, rotate a landscape image
CropOpen ==
    /\ crop.pc = "open"
    /\ LET r == Rotate(crop.w, crop.h)
       IN crop' = [crop EXCEPT !.pc = "resize", !.w = r[1], !.h = r[2]]
    /\ UNCHANGED <<packVars, pipeVars>>

\* lines 27-38: cover-fit resize
CropResize ==
    /\ crop.pc = "resize"
    /\ \E n \in NewSizes(crop.w, crop.h, SCALES[crop.scale][1], SCALES[crop.scale][2]) :
          crop' = [crop EXCEPT !.pc = "crop", !.new = n]
    /\ UNCHANGED <<packVars, pipeVars>>

\* lines 39-44: centre crop
CropCut ==
    /\ crop.pc = "crop"
    /\ LET b == CropBox(crop.new[1], crop.new[2],
                        SCALES[crop.scale][1], SCALES[crop.scale][2])
       IN crop' = [crop EXCEPT !.pc = "done", !.box = b, !.out = CropSize(b)]
    /\ UNCHANGED <<packVars, pipeVars>>

NextCrop == CropOpen \/ CropResize \/ CropCut

(* ============ the archive step of process_folder, lines 75-82 ========== *)

\* sizes in MiB of the PNG files the step is run on
FileSizes == {4, 12, 25}

\* the byte budget B of the specification, in MiB; the source defines none
MAX_ARCHIVE_SIZE == 20

\* os.path.basename of a path inside the output subfolder: its file name
Basename(path) == path

\* lines 76-79: current_files, one (path, arcname) pair per variant, in order
ArchiveFilesMut(paths) ==
    [i \in DOMAIN paths |->
        <<paths[Len(paths) + 1 - i], Basename(paths[Len(paths) + 1 - i])>>]
ArchiveFiles(paths) == [i \in DOMAIN paths |-> <<paths[i], Basename(paths[i])>>]

\* create_zip, lines 46-49: the entries written, one per pair, in list order
create_zipMut(files) == [i \in 1..(Len(files) - 1) |-> files[i][2]]
create_zip(files) == [i \in DOMAIN files |-> files[i][2]]

PackIdle == [pc |-> "idle", sizes |-> <<>>, scaled_images |-> <<>>,
             current_files |-> <<>>, archives |-> <<>>]

SeqsUpTo(S, n) == UNION {[1..k -> S] : k \in 0..n}

InitPackInput ==
    pack \in {[PackIdle EXCEPT !.pc = "append", !.sizes = sz,
                               !.scaled_images = [i \in DOMAIN sz |-> i]] :
                 sz \in SeqsUpTo(FileSizes, MaxEntries)}

\* lines 77-79, one iteration of the loop
PackAppend ==
    /\ pack.pc = "append"
    /\ Len(pack.current_files) < Len(pack.scaled_images)
    /\ pack' = [pack EXCEPT !.current_files =
                    ArchiveFiles(SubSeq(pack.scaled_images, 1, Len(pack.current_files) + 1))]
    /\ UNCHANGED <<cropVars, pipeVars>>

\* lines 81-82: the single create_zip call
PackCreateZip ==
    /\ pack.pc = "append"
    /\ Len(pack.current_files) = Len(pack.scaled_images)
    /\ pack' = [pack EXCEPT !.pc = "done",
                            !.archives = Append(pack.archives, create_zip(pack.current_files))]
    /\ UNCHANGED <<cropVars, pipeVars>>

NextPack == PackAppend \/ PackCreateZip

RECURSIVE SumBytes(_, _)
\* total size of the files named by the entries of an archive
SumBytes(entries, sizes) ==
    IF entries = <<>> THEN 0
    ELSE sizes[Head(entries)] + SumBytes(Tail(entries), sizes)

(* ================= the scaler's main loop and process_folder =========== *)

\* the immediate subdirectories of the root directory
Folders == {"a", "b", "venv"}

\* value of cur while no folder is being processed
NoFolder == "-"

\* directories the publisher's scan leaves out
EXCLUDED_DIRS == {".git", "venv"}

\* names of the entries of a folder's output subfolder
PngFile(p) == <<"png", p[1], p[2]>>
ZipFile(z) == <<"zip", 0, z[1]>>
ScaledFiles(f) == {PngFile(p) : p \in pngs[f]} \cup {ZipFile(z) : z \in zips[f]}

\* lines 90-94: a directory, not "venv", with no entry "scaled"
IsScaleCandidateMut(f) == f # "venv"
IsScaleCandidate(f) == f # "venv" /\ ~scaledDir[f]

\* scan_candidate_folders, lines 255-261: not excluded, "scaled" is a non-empty directory
IsPublishCandidateMut(f) == f \notin EXCLUDED_DIRS /\ scaledDir[f]
IsPublishCandidate(f) == f \notin EXCLUDED_DIRS /\ scaledDir[f] /\ ScaledFiles(f) # {}

Stage(f) ==
    IF ~scaledDir[f] THEN "none"
    ELSE IF ScaledFiles(f) # {} THEN "nonempty" ELSE "empty"

Rank(stage) == CASE stage = "none" -> 0 [] stage = "nonempty" -> 1 [] stage = "empty" -> 2

Max(a, b) == IF a >= b THEN a ELSE b
Min(a, b) == IF a <= b THEN a ELSE b

AtRest == pc \in {"idle", "done", "aborted", "crashed", "pdone", "pfailed"}
ScalerRunning == pc \in {"main", "scale"}

HistInit ==
    [scaledCount |-> [f \in Folders |-> 0],
     pubCalled   |-> [f \in Folders |-> FALSE],
     emptied     |-> [f \in Folders |-> FALSE],
     delFailed   |-> [f \in Folders |-> FALSE],
     gone        |-> [f \in Folders |-> {}],
     crashed     |-> {},
     hadOutput   |-> {},
     maxRank     |-> [f \in Folders |-> 0]]

\* the history at the end of a run: the furthest stage each folder was left in
EndRun(h) ==
    [h EXCEPT !.hadOutput = {},
              !.maxRank = [f \in Folders |-> Max(h.maxRank[f], Rank(Stage(f)))]]

InitPipe ==
    /\ images \in [Folders -> SeqsUpTo(BOOLEAN, MaxImages)]
    /\ images["b"] = <<TRUE>>
    /\ images["venv"] = <<TRUE>>
    /\ scaledDir = [f \in Folders |-> FALSE]
    /\ pngs = [f \in Folders |-> {}]
    /\ zips = [f \in Folders |-> {}]
    /\ pdf = [f \in Folders |-> FALSE]
    /\ drive = [f \in Folders |-> {}]
    /\ pc = "idle"
    /\ todo = {}
    /\ cur = NoFolder
    /\ si = 1
    /\ scaled_images = <<>>
    /\ cands = {}
    /\ faults = 0
    /\ hist = HistInit

\* __main__, lines 84-87: a scaler run starts and lists the root directory
StartScaler ==
    /\ AtRest
    /\ pc' = "main"
    /\ todo' = Folders
    /\ hist' = [hist EXCEPT !.hadOutput = {f \in Folders : Stage(f) = "nonempty"}]
    /\ UNCHANGED <<cropVars, packVars, faults, images, scaledDir, pngs, zips, pdf, drive, cur,
                   si, scaled_images, cands>>

\* lines 87-94: the loop visits a folder that is no scale candidate
SkipFolder(f) ==
    /\ pc = "main"
    /\ f \in todo
    /\ ~IsScaleCandidate(f)
    /\ todo' = todo \ {f}
    /\ UNCHANGED <<cropVars, packVars, faults, images, scaledDir, pngs, zips, pdf, drive, pc,
                   cur, si, scaled_images, cands, hist>>

\* lines 95, 51-64: process_folder is called, makes "scaled", lists the images
BeginFolder(f) ==
    /\ pc = "main"
    /\ f \in todo
    /\ IsScaleCandidate(f)
    /\ todo' = todo \ {f}
    /\ scaledDir' = [scaledDir EXCEPT ![f] = TRUE]
    /\ cur' = f
    /\ si' = 1
    /\ scaled_images' = <<>>
    /\ pc' = "scale"
    /\ hist' = [hist EXCEPT !.scaledCount[f] = Min(@ + 1, 2)]
    /\ UNCHANGED <<cropVars, packVars, faults, images, pngs, zips, pdf, drive, cands>>

\* lines 66-73, one iteration: a readable image is scaled and saved
ScaleImage ==
    /\ pc = "scale"
    /\ Len(scaled_images) < Len(images[cur])
    /\ LET idx == Len(scaled_images) + 1
           path == <<idx, ScaleNames[si]>>
       IN /\ images[cur][idx]
          /\ pngs' = [pngs EXCEPT ![cur] = @ \cup {path}]
          /\ scaled_images' = Append(scaled_images, path)
    /\ UNCHANGED <<cropVars, packVars, faults, images, scaledDir, zips, pdf, drive, pc, todo,
                   cur, si, cands, hist>>

\* line 70 on an unreadable image: Image.open raises, nothing catches it
ScaleImageFails ==
    /\ pc = "scale"
    /\ Len(scaled_images) < Len(images[cur])
    /\ ~images[cur][Len(scaled_images) + 1]
    /\ pc' = "aborted"
    /\ todo' = {}
    /\ cur' = NoFolder
    /\ si' = 1
    /\ scaled_images' = <<>>
    /\ hist' = EndRun(hist)
    /\ UNCHANGED <<cropVars, packVars, faults, images, scaledDir, pngs, zips, pdf, drive, cands>>

\* lines 75-82: the size's archive is written; then the next size or the next folder
CreateZip ==
    /\ pc = "scale"
    /\ Len(scaled_images) = Len(images[cur])
    /\ LET name == ScaleNames[si]
           archive == <<name, create_zip(ArchiveFiles(scaled_images))>>
       IN zips' = [zips EXCEPT ![cur] = {z \in @ : z[1] # name} \cup {archive}]
    /\ scaled_images' = <<>>
    /\ IF si < Len(ScaleNames)
       THEN /\ si' = si + 1
            /\ UNCHANGED <<pc, cur>>
       ELSE /\ si' = 1
            /\ pc' = "main"
            /\ cur' = NoFolder
    /\ UNCHANGED <<cropVars, packVars, faults, images, scaledDir, pngs, pdf, drive, todo, cands,
                   hist>>

\* the loop of line 87 is exhausted: the run ends normally
FinishScaler ==
    /\ pc = "main"
    /\ todo = {}
    /\ pc' = "done"
    /\ hist' = EndRun(hist)
    /\ UNCHANGED <<cropVars, packVars, faults, images, scaledDir, pngs, zips, pdf, drive, todo,
                   cur, si, scaled_images, cands>>

\* the scaler process is killed between two of its steps
Crash ==
    /\ ScalerRunning
    /\ faults < MaxFaults
    /\ faults' = faults + 1
    /\ pc' = "crashed"
    /\ todo' = {}
    /\ cur' = NoFolder
    /\ si' = 1
    /\ scaled_images' = <<>>
    /\ hist' = [EndRun(hist) EXCEPT
                   !.crashed = IF pc = "scale" THEN @ \cup {cur} ELSE @]
    /\ UNCHANGED <<cropVars, packVars, images, scaledDir, pngs, zips, pdf, drive, cands>>

(* ========================= image_publisher.py ========================== *)

\* main, lines 339-348: the Drive service is built and the candidates are scanned
StartPublisher ==
    /\ AtRest
    /\ \E authOk \in BOOLEAN :
          IF ~authOk
          THEN /\ pc' = "pfailed"
               /\ cands' = {}
               /\ hist' = EndRun(hist)
          ELSE LET found == {f \in Folders : IsPublishCandidate(f)}
               IN /\ cands' = found
                  /\ pc' = IF found = {} THEN "pdone" ELSE "loop"
                  /\ hist' = IF found = {} THEN EndRun(hist)
                             ELSE hist
    /\ UNCHANGED <<cropVars, packVars, faults, images, scaledDir, pngs, zips, pdf, drive, todo,
                   cur, si, scaled_images>>

\* process_folder, lines 291-296: a Drive call of drive_ensure_folder raises; main
\* logs the error (lines 351-354) and goes on to the next candidate
PubSetupFails(f) ==
    /\ pc = "loop"
    /\ f \in cands
    /\ faults < MaxFaults
    /\ faults' = faults + 1
    /\ cands' = cands \ {f}
    /\ hist' = [hist EXCEPT !.pubCalled[f] = TRUE]
    /\ UNCHANGED <<cropVars, packVars, images, scaledDir, pngs, zips, pdf, drive, pc,
                   todo, cur, si, scaled_images>>

\* process_folder, lines 291-308: the .zip files are uploaded one by one, in the
\* order of the listing.  tried is the set the loop reaches and ok the set whose
\* upload succeeds; an HttpError is logged and the loop goes on, any other
\* exception (raised) leaves process_folder for main's handler
PubUpload(f) ==
    /\ pc = "loop"
    /\ f \in cands
    /\ LET zip_files == {z[1] : z \in zips[f]}
       IN \E tried \in SUBSET zip_files, raised \in BOOLEAN :
          \E ok \in SUBSET tried :
             /\ IF raised THEN tried # ok ELSE tried = zip_files
             /\ faults + Cardinality(tried \ ok) <= MaxFaults
             /\ faults' = faults + Cardinality(tried \ ok)
             /\ drive' = [drive EXCEPT ![f] = @ \cup ok]
             /\ IF raised
                THEN /\ cands' = cands \ {f}
                     /\ UNCHANGED <<pc, cur>>
                ELSE /\ pc' = "delete"
                     /\ cur' = f
                     /\ UNCHANGED cands
    /\ hist' = [hist EXCEPT !.pubCalled[f] = TRUE]
    /\ UNCHANGED <<cropVars, packVars, images, scaledDir, pngs, zips, pdf, todo, si,
                   scaled_images>>

\* the outcomes of the unlink calls of delete_all_files_in_folder: the set of
\* files whose unlink fails is empty, one file, or all of them (the directory
\* is not writable)
UnlinkFailures(files) == {{}, files} \cup {{x} : x \in files}

\* the environment failures of one call: failed unlinks count as one
FinishCost(failed, published) ==
    (IF failed # {} THEN 1 ELSE 0) + (IF published THEN 0 ELSE 1)

\* process_folder, lines 310-332: every file of "scaled" is deleted; then the
\* Drive folder is made public and the PDF is created (published), unless the
\* Drive call raises or create_pdf fails
PubFinish ==
    /\ pc = "delete"
    /\ \E failed \in UnlinkFailures(ScaledFiles(cur)), published \in BOOLEAN :
          /\ faults + FinishCost(failed, published) <= MaxFaults
          /\ faults' = faults + FinishCost(failed, published)
          /\ pngs' = [pngs EXCEPT ![cur] = {p \in @ : PngFile(p) \in failed}]
          /\ zips' = [zips EXCEPT ![cur] = {z \in @ : ZipFile(z) \in failed}]
          /\ pdf' = [pdf EXCEPT ![cur] = @ \/ published]
          /\ hist' = [hist EXCEPT
                !.emptied[cur] = TRUE,
                !.delFailed[cur] = @ \/ failed # {},
                !.gone[cur] = @ \cup {z[1] : z \in {y \in zips[cur] : ZipFile(y) \notin failed}}]
    /\ cands' = cands \ {cur}
    /\ pc' = "loop"
    /\ cur' = NoFolder
    /\ UNCHANGED <<cropVars, packVars, images, scaledDir, drive, todo, si, scaled_images>>

\* main, lines 350-357: no candidate is left
PubDone ==
    /\ pc = "loop"
    /\ cands = {}
    /\ pc' = "pdone"
    /\ hist' = EndRun(hist)
    /\ UNCHANGED <<cropVars, packVars, faults, images, scaledDir, pngs, zips, pdf, drive, todo,
                   cur, si, scaled_images, cands>>

NextPipe ==
    \/ StartScaler
    \/ \E f \in Folders : SkipFolder(f)
    \/ \E f \in Folders : BeginFolder(f)
    \/ ScaleImage
    \/ ScaleImageFails
    \/ CreateZip
    \/ FinishScaler
    \/ Crash
    \/ StartPublisher
    \/ \E f \in Folders : PubSetupFails(f)
    \/ \E f \in Folders : PubUpload(f)
    \/ PubFinish
    \/ PubDone

(* ============================ specifications =========================== *)

Init == crop = CropIdle /\ pack = PackIdle /\ InitPipe

InitPipeIdle == InitPipe /\ \A f \in Folders : images[f] = <<TRUE>>

InitCrop == InitCropInput /\ pack = PackIdle /\ InitPipeIdle

InitPack == crop = CropIdle /\ InitPackInput /\ InitPipeIdle

Next == NextPipe

Spec == Init /\ [][Next]_vars

SpecCrop == InitCrop /\ [][NextCrop]_vars

SpecPack == InitPack /\ [][NextPack]_vars

(* =============================== claims =============================== *)

TargetOf(c) == SCALES[c.scale]

\* C1: the image scale_and_crop returns has exactly the pixel dimensions (w, h)
\* of the SizeSpec, odd differences new_width - target_width included.
C1_ExactDimensions == crop.pc = "done" => crop.out = TargetOf(crop)

\* C2: cover-fit: the intermediate size is never smaller than the target, in
\* width or in height, in either branch of the aspect-ratio comparison.
C2_CoverFit ==
    crop.pc \in {"crop", "done"} =>
        /\ crop.new[1] >= TargetOf(crop)[1]
        /\ crop.new[2] >= TargetOf(crop)[2]

\* a finished call on an image of exactly the target's aspect ratio (else branch)
C2_Witness ==
    /\ crop.pc = "done"
    /\ crop.w * TargetOf(crop)[2] = TargetOf(crop)[1] * crop.h
    /\ crop.new[1] = TargetOf(crop)[1]

ArchiveTotal(k) == SumBytes(pack.archives[k], pack.sizes)

\* C3 as written: every archive written has a total entry size <= B, or is one
\* entry whose own size is > B.
C3_WithinBudget ==
    \A k \in DOMAIN pack.archives :
        \/ ArchiveTotal(k) <= MAX_ARCHIVE_SIZE
        \/ Len(pack.archives[k]) = 1 /\ ArchiveTotal(k) > MAX_ARCHIVE_SIZE

\* C3 as amended: process_folder applies no budget; it writes one archive per
\* size, holding every variant file of the size, so that the archive's total is
\* the total of the size's variant files, however large.
C3_OneArchiveOfAll ==
    pack.pc = "done" =>
        /\ Len(pack.archives) = 1
        /\ Len(pack.archives[1]) = Len(pack.sizes)
        /\ ArchiveTotal(1) = SumBytes(pack.scaled_images, pack.sizes)

\* an archive of several entries whose total exceeds the budget
C3_Witness ==
    /\ pack.pc = "done"
    /\ Len(pack.archives[1]) >= 2
    /\ ArchiveTotal(1) > MAX_ARCHIVE_SIZE

\* C4: for a folder with no source image, no archive is created.
C4_NoArchiveWithoutImages ==
    \A f \in Folders : images[f] = <<>> => zips[f] = {}

\* C5: an unreadable source image does not abort the scaler's run.
C5_FailureConfined == pc # "aborted"

\* C6: an archive is deleted locally only if its upload to Drive has succeeded.
C6_DeletedOnlyIfUploaded == \A f \in Folders : hist.gone[f] \subseteq drive[f]

VariantsOf(f, s) == {p \in pngs[f] : p[2] = s}

C8_RerunIsNoOp ==
    [][ScalerRunning =>
          \A f \in hist.hadOutput :
              /\ cur' # f
              /\ hist'.scaledCount[f] = hist.scaledCount[f]
              /\ scaledDir'[f] = scaledDir[f]
              /\ pngs'[f] = pngs[f]
              /\ zips'[f] = zips[f]
              /\ pdf'[f] = pdf[f]]_vars

\* a scaler run has visited a folder that had output when the run started
C8_Witness == ScalerRunning /\ \E f \in hist.hadOutput : f \notin todo

Complete(f) ==
    /\ pngs[f] = {<<i, s>> : i \in DOMAIN images[f], s \in ScaleSet}
    /\ {z[1] : z \in zips[f]} = ScaleSet

\* C9: after a crash in the middle of a folder, a scaler run that ends normally
\* has written every variant and every archive of that folder.
C9_RecoveredByRerun ==
    pc = "done" =>
        \A f \in hist.crashed :
            ((\A i \in DOMAIN images[f] : images[f][i]) /\ ~hist.emptied[f]) => Complete(f)

NoUnlinkFailed == \A g \in Folders : ~hist.delFailed[g]

\* the folder lifecycle, with `processed` the folders a publisher run has processed
Lifecycle(processed) ==
    \A f \in Folders :
        /\ AtRest => Rank(Stage(f)) = hist.maxRank[f]
        /\ ~(IsScaleCandidate(f) /\ IsPublishCandidate(f))
        /\ hist.scaledCount[f] <= 1
        /\ (AtRest /\ processed[f] /\ NoUnlinkFailed) =>
               ~IsScaleCandidate(f) /\ ~IsPublishCandidate(f)

\* C10 as written: between runs a folder's output state only moves forward, none
\* -> non-empty -> empty; a folder is never a candidate of both stages, is scaled
\* at most once, and once the publisher's process_folder has been called for it
\* (all unlinks succeeding) it is a candidate of neither stage.
C10_Lifecycle == Lifecycle(hist.pubCalled)

\* C10 as amended: the same, for the folders whose output subfolder a publisher
\* run has emptied, that is, for which process_folder reached
\* delete_all_files_in_folder.
C10_LifecycleOnceEmptied == Lifecycle(hist.emptied)

\* a scaler run has ended normally after the publisher emptied a scaled folder
C10_Witness ==
    /\ pc = "done"
    /\ NoUnlinkFailed
    /\ \E f \in Folders : hist.emptied[f] /\ hist.scaledCount[f] = 1 /\ Stage(f) = "empty"

====
